---- MODULE Spec2Model ----
(***************************************************************************)
(* Model of generate_summaries.py (Boston.com Speed Read): the feed        *)
(* pipeline BostonNewsGenerator.fetch_and_process_feeds with the helpers   *)
(* it calls (fetch_article_content, create_summary, determine_hook_type)   *)
(* and the persistence step BostonNewsGenerator.save_data.                 *)
(*                                                                         *)
(* Text is modelled as a sequence of one-character strings, so that        *)
(* lower(), strip(), startswith(), slicing, substring search and string    *)
(* comparison are computed as Python computes them.                        *)
(*                                                                         *)
(* Three specifications share the module:                                  *)
(*   Spec      one run of fetch_and_process_feeds over the feed list       *)
(*   SpecSave  a sequence of save_data calls on the two JSON documents     *)
(*   SpecHook  determine_hook_type applied to (title, content) pairs       *)
(***************************************************************************)
EXTENDS Integers, Sequences, FiniteSets, TLC

VARIABLES
    \* ---- fetch_and_process_feeds (Spec) ----
    world,         \* the run's input: how the feeds' links and dates are laid out
    pc,            \* position in the function: "feeds", "entries", "done"
    feedIdx,       \* index into RSS_FEEDS of the feed being processed
    feed,          \* what feedparser.parse returned for the current feed
    entryIdx,      \* index of the next entry of feed.entries[:15]
    all_articles,  \* the local list all_articles
    seen_urls,     \* the local set seen_urls
    result,        \* the returned list (set when pc = "done")
    considered,    \* history variable: every entry the loop body was entered for
    feedLog,       \* history variable: per feed, how its processing ended
    lastCall,      \* history variable: arguments of the last helper calls
    clock,         \* datetime.now(): a counter that ticks at every reading
    \* ---- save_data (SpecSave) ----
    news_data,     \* the file news-data.json
    news_history,  \* the file news-history.json
    saves,         \* number of save_data calls so far
    lastSave,      \* history variable: the last save_data call
    \* ---- determine_hook_type (SpecHook) ----
    hookArgs,      \* the (title, content) pair the function is applied to
    hookResult     \* the label it returned, or NoResult before the call

pipelineVars == <<world, pc, feedIdx, feed, entryIdx, all_articles, seen_urls, result,
                  considered, feedLog, lastCall, clock>>
saveVars == <<news_data, news_history, saves, lastSave>>
hookVars == <<hookArgs, hookResult>>
vars == <<pipelineVars, saveVars, hookVars>>

(***************************************************************************)
(* Python values                                                           *)
(***************************************************************************)
\* Python's None where a string may stand: a one-element sequence whose element
\* is no character, so it differs from every string and compares with all.
None == <<"<None>">>
EmptyStr == << >>             \* the empty string ''
\* a key the feed entry lacks (entry.get(key, '') then yields '')
Missing == <<"<missing>">>

Min(a, b) == IF a < b THEN a ELSE b

\* s[:n] for n >= 0
Slice(s, n) == SubSeq(s, 1, Min(Len(s), n))

UpperCase ==
    <<"A", "B", "C", "D", "E", "F", "G", "H", "I", "J", "K", "L", "M",
      "N", "O", "P", "Q", "R", "S", "T", "U", "V", "W", "X", "Y", "Z">>
LowerCase ==
    <<"a", "b", "c", "d", "e", "f", "g", "h", "i", "j", "k", "l", "m",
      "n", "o", "p", "q", "r", "s", "t", "u", "v", "w", "x", "y", "z">>

LowerChar(c) ==
    IF \E i \in 1..Len(UpperCase) : UpperCase[i] = c
    THEN LowerCase[CHOOSE i \in 1..Len(UpperCase) : UpperCase[i] = c]
    ELSE c

\* str.lower()
ToLower(s) == [i \in 1..Len(s) |-> LowerChar(s[i])]

\* the test  w in s  on strings: w occurs in s as a substring
Contains(s, w) ==
    \E i \in 1..(Len(s) - Len(w) + 1) : SubSeq(s, i, i + Len(w) - 1) = w

\* s.startswith(p)
StartsWith(s, p) == Len(p) <= Len(s) /\ SubSeq(s, 1, Len(p)) = p

\* any(word in s for word in words)
AnyIn(words, s) == \E k \in 1..Len(words) : Contains(s, words[k])

(***************************************************************************)
(* determine_hook_type                                                     *)
(***************************************************************************)
SPORTS_WORDS ==
    << <<"p", "a", "t", "r", "i", "o", "t", "s">>,
       <<"c", "e", "l", "t", "i", "c", "s">>,
       <<"b", "r", "u", "i", "n", "s">>,
       <<"r", "e", "d", " ", "s", "o", "x">> >>
TRANSIT_WORDS ==
    << <<"m", "b", "t", "a">>,
       <<"o", "r", "a", "n", "g", "e", " ", "l", "i", "n", "e">>,
       <<"g", "r", "e", "e", "n", " ", "l", "i", "n", "e">>,
       <<"c", "o", "m", "m", "u", "t", "e", "r", " ", "r", "a", "i", "l">>,
       <<"t", "r", "a", "f", "f", "i", "c">> >>
POLITICS_WORDS ==
    << <<"m", "a", "y", "o", "r">>,
       <<"c", "i", "t", "y", " ", "c", "o", "u", "n", "c", "i", "l">>,
       <<"e", "l", "e", "c", "t", "i", "o", "n">>,
       <<"v", "o", "t", "e">> >>
WEATHER_WORDS ==
    << <<"w", "e", "a", "t", "h", "e", "r">>,
       <<"s", "t", "o", "r", "m">>,
       <<"s", "n", "o", "w">>,
       <<"r", "a", "i", "n">> >>
LOCAL_WORDS ==
    << <<"b", "o", "s", "t", "o", "n">>,
       <<"c", "a", "m", "b", "r", "i", "d", "g", "e">>,
       <<"s", "o", "m", "e", "r", "v", "i", "l", "l", "e">>,
       <<"b", "r", "o", "o", "k", "l", "i", "n", "e">> >>

\* A plausible slip: the WEATHER test placed before the POLITICS test.
determine_hook_type_weather_first(title, content) ==
    LET title_lower == ToLower(title)
        content_lower == IF content # None /\ content # EmptyStr
                         THEN ToLower(content) ELSE EmptyStr
    IN  IF AnyIn(SPORTS_WORDS, title_lower) THEN "SPORTS"
        ELSE IF AnyIn(TRANSIT_WORDS, title_lower) THEN "TRANSIT"
        ELSE IF AnyIn(WEATHER_WORDS, title_lower) THEN "WEATHER"
        ELSE IF AnyIn(POLITICS_WORDS, title_lower) THEN "POLITICS"
        ELSE IF AnyIn(LOCAL_WORDS, content_lower) THEN "LOCAL_IMPACT"
        ELSE "NEWS"

determine_hook_type(title, content) ==
    LET title_lower == ToLower(title)
        \* content.lower() if content else ""
        content_lower == IF content # None /\ content # EmptyStr
                         THEN ToLower(content) ELSE EmptyStr
    IN  IF AnyIn(SPORTS_WORDS, title_lower) THEN "SPORTS"
        ELSE IF AnyIn(TRANSIT_WORDS, title_lower) THEN "TRANSIT"
        ELSE IF AnyIn(POLITICS_WORDS, title_lower) THEN "POLITICS"
        ELSE IF AnyIn(WEATHER_WORDS, title_lower) THEN "WEATHER"
        ELSE IF AnyIn(LOCAL_WORDS, content_lower) THEN "LOCAL_IMPACT"
        ELSE "NEWS"

(***************************************************************************)
(* More of Python's str: strip, split, join, comparison                    *)
(***************************************************************************)
Whitespace == {" ", "\n", "\t"}

RECURSIVE LStrip(_)
LStrip(s) ==
    IF s # << >> /\ Head(s) \in Whitespace THEN LStrip(Tail(s)) ELSE s

RECURSIVE RStrip(_)
RStrip(s) ==
    IF s # << >> /\ s[Len(s)] \in Whitespace
    THEN RStrip(SubSeq(s, 1, Len(s) - 1)) ELSE s

\* str.strip()
Strip(s) == RStrip(LStrip(s))

\* str.split(sep) for a one-character separator
RECURSIVE SplitFrom(_, _, _)
SplitFrom(s, sep, cur) ==
    IF s = << >> THEN <<cur>>
    ELSE IF Head(s) = sep THEN <<cur>> \o SplitFrom(Tail(s), sep, << >>)
    ELSE SplitFrom(Tail(s), sep, Append(cur, Head(s)))

Split(s, sep) == SplitFrom(s, sep, << >>)

\* sep.join(parts)
RECURSIVE Join(_, _)
Join(parts, sep) ==
    IF parts = << >> THEN << >>
    ELSE IF Len(parts) = 1 THEN parts[1]
    ELSE parts[1] \o sep \o Join(Tail(parts), sep)

\* The characters the modelled strings use, in code point order.
CharOrder ==
    <<"\t", "\n", " ", "*", "-", ".", "0", "1", "2", "3", "4", "5", "6", "7",
      "8", "9", ":">> \o UpperCase \o LowerCase

Ord(c) == CHOOSE i \in 1..Len(CharOrder) : CharOrder[i] = c

\* a < b on strings: lexicographic by code point, a proper prefix is smaller
RECURSIVE StrLess(_, _)
StrLess(a, b) ==
    IF b = << >> THEN FALSE
    ELSE IF a = << >> THEN TRUE
    ELSE IF Head(a) = Head(b) THEN StrLess(Tail(a), Tail(b))
    ELSE Ord(Head(a)) < Ord(Head(b))

(***************************************************************************)
(* fetch_article_content                                                   *)
(*                                                                         *)
(* A page is what session.get(url) leads to: kind "error" when get,        *)
(* raise_for_status or the parser raises (non-2xx status, timeout,         *)
(* connection error), else kind "html" with, after the unwanted elements   *)
(* are decomposed, the text of the element each selector finds (None when  *)
(* select_one finds none) and the texts of the p elements.                 *)
(***************************************************************************)
SELECTORS == <<".entry-content", ".article-body", ".post-content", "article">>
MAX_PARAGRAPHS == 10
MAX_CONTENT_CHARS == 4000

\* the loop over the selectors: the text of the first element found, or None
SelectedText(page) ==
    LET found == {k \in 1..Len(SELECTORS) : page.selected[k] # None}
    IN  IF found = {} THEN None
        ELSE page.selected[CHOOSE k \in found : \A j \in found : k <= j]

ExtractText(page) ==
    LET content == SelectedText(page)
    IN  IF content = None \/ content = EmptyStr
        THEN Join(Slice(page.paragraphs, MAX_PARAGRAPHS), <<" ">>)
        ELSE content

fetch_article_content(page) ==
    IF page.kind = "error" THEN None
    ELSE LET content == ExtractText(page)
         IN  IF content # EmptyStr THEN Slice(content, MAX_CONTENT_CHARS) ELSE None

(***************************************************************************)
(* create_summary                                                          *)
(*                                                                         *)
(* A model response is kind "raise" when the completion call or the        *)
(* reading of its result raises, else kind "text" with the content of the  *)
(* first choice.  The fixed wording of the fallback bullets is one token   *)
(* each: nothing looks inside it.                                          *)
(***************************************************************************)
BULLET == "U+2022"     \* the bullet character, one character in Python
PREFIXES == << <<BULLET>>, <<"-">>, <<"*">>, <<"1", ".">>, <<"2", ".">>, <<"3", ".">> >>
NUM_BULLETS == 3

IsBulletLine(line) ==
    line # EmptyStr /\ \E k \in 1..Len(PREFIXES) : StartsWith(line, PREFIXES[k])

\* the inner loop: the first prefix the line starts with is cut off
CleanLine(line) ==
    LET k == CHOOSE k \in 1..Len(PREFIXES) :
                /\ StartsWith(line, PREFIXES[k])
                /\ \A j \in 1..(k - 1) : ~StartsWith(line, PREFIXES[j])
    IN  Strip(SubSeq(line, Len(PREFIXES[k]) + 1, Len(line)))

RECURSIVE ParseBullets(_)
ParseBullets(lines) ==
    IF lines = << >> THEN << >>
    ELSE LET line == Strip(Head(lines))
         IN  (IF IsBulletLine(line) THEN <<CleanLine(line)>> ELSE << >>)
             \o ParseBullets(Tail(lines))

ParseFallback(title) ==
    << <<"Breaking news from Boston: ">> \o title,
       <<"Story developing with local impact">>,
       <<"Full details and context available at Boston.com">> >>

ErrorFallback(title) ==
    << <<"Boston news update: ">> \o title,
       <<"Local story with community impact">>,
       <<"Additional details in full article">> >>

\* A plausible slip: the parsed bullets are returned however few they are.
create_summary_no_fallback(title, content, response) ==
    IF response.kind = "raise" THEN ErrorFallback(title)
    ELSE Slice(ParseBullets(Split(Strip(response.text), "\n")), NUM_BULLETS)

create_summary(title, content, response) ==
    IF response.kind = "raise" THEN ErrorFallback(title)
    ELSE LET bullets == ParseBullets(Split(Strip(response.text), "\n"))
         IN  IF Len(bullets) >= NUM_BULLETS THEN Slice(bullets, NUM_BULLETS)
             ELSE ParseFallback(title)

(***************************************************************************)
(* The inputs of a run: the feeds, their entries, and what the network     *)
(* answers for each entry (the article page and the model response).       *)
(***************************************************************************)
\* RSS_FEEDS ships with one URL.  The model runs the same loop over a list of
\* two, so that what one feed does to the next is exercised; a second feed
\* that fails to parse or has no entry leaves what the shipped list yields.
RSS_FEEDS == <<"feed-1", "feed-2">>
MAX_ARTICLES == 12
MAX_ENTRIES == 15

\* Bounds of the model.
MaxFeedLen == 16        \* the longest feed (one more than the loop looks at)
RichLen == 2            \* the first RichLen entries of a run may be of any kind

FeedLens == {0, 2, 7, MaxFeedLen}
LinkPatterns == {"overlap", "pairs"}
DatePatterns == {"cycle", "rev"}

TextArticle ==
    <<"c", "o", "u", "n", "c", "i", "l", " ", "n", "e", "w", "s">>
TextPara1 ==
    <<"F", "i", "r", "e", " ", "i", "n">>
TextPara2 ==
    <<"S", "o", "m", "e", "r", "v", "i", "l", "l", "e">>
TextFeedSummary ==
    <<"B", "o", "s", "t", "o", "n", " ", "b", "r", "i", "e", "f">>

PageArticle ==
    [kind |-> "html", selected |-> <<None, TextArticle, None, TextPara2>>,
     paragraphs |-> <<TextPara1>>]
PageParagraphs ==
    [kind |-> "html", selected |-> <<None, None, None, None>>,
     paragraphs |-> <<TextPara1, TextPara2>>]
PageEmptyElement ==
    [kind |-> "html", selected |-> <<EmptyStr, TextArticle, None, None>>,
     paragraphs |-> << >>]
PageBlank ==
    [kind |-> "html", selected |-> <<None, None, None, None>>,
     paragraphs |-> << >>]
PageError == [kind |-> "error", selected |-> << >>, paragraphs |-> << >>]

Llm3Text ==
    <<" ", "-", " ", "o", "n", "e", "\n", "-", " ", "t", "w", "o", " ", "\n",
      "-", "t", "h", "r", "e", "e", "\n">>
Llm4Text ==
    <<"1", ".", " ", "o", "n", "e", "\n", "2", ".", " ", "t", "w", "o", "\n",
      "3", ".", " ", "t", "h", "r", "e", "e", "\n", "*", " ", "f", "o", "u", "r">>
LlmBulletText ==
    <<"S", "u", "r", "e", ":", "\n", BULLET, " ", "a", "\n", "\n", BULLET, " ",
      "b", "\n", BULLET, " ", "c">>
Llm2Text ==
    <<"-", " ", "o", "n", "e", "\n", "a", "n", "d", "\n", "*", " ", "t", "w",
      "o", "\n", "4", ".", " ", "x">>
Llm0Text ==
    <<"n", "o", " ", "l", "i", "s", "t">>

LlmText(text) == [kind |-> "text", text |-> text]
LlmRaise == [kind |-> "raise", text |-> << >>]

\* What comes with an ordinary entry: a page with an article element, a
\* response of three bullet lines, a feed summary, a title and a link.
PlainEnv ==
    [page |-> PageArticle, llm |-> LlmText(Llm3Text), summary |-> TextFeedSummary,
     hasTitle |-> TRUE, hasLink |-> TRUE]

EntryEnvs ==
    {PlainEnv}
    \cup {[PlainEnv EXCEPT !.page = p] :
            p \in {PageParagraphs, PageEmptyElement, PageBlank, PageError}}
    \cup {[PlainEnv EXCEPT !.llm = r] :
            r \in {LlmText(Llm4Text), LlmText(LlmBulletText), LlmText(Llm2Text),
                   LlmText(Llm0Text), LlmRaise}}
    \cup {[PlainEnv EXCEPT !.page = PageError, !.summary = Missing],
          [PlainEnv EXCEPT !.page = PageError, !.llm = LlmRaise],
          [PlainEnv EXCEPT !.hasTitle = FALSE],
          [PlainEnv EXCEPT !.hasLink = FALSE]}

\* The published strings of a feed; the third entry of five has none.
DateStrings == << <<"1", "0">>, <<"9">>, Missing, <<"M", "o", "n">>, <<"1">> >>

DateOf(dp, f, i) ==
    LET n == Len(DateStrings)
        k == IF dp = "cycle" THEN ((i + f - 2) % n) + 1
             ELSE n - ((i + f - 2) % n)
    IN  DateStrings[k]

\* "overlap": a feed repeats the last links of the feed before it;
\* "pairs": two successive entries share a link, and so do the feeds.
LinkOf(lp, f, i) ==
    IF lp = "overlap" THEN i + 3 * (f - 1) ELSE (i + 1) \div 2

IdChars ==
    <<"0", "1", "2", "3", "4", "5", "6", "7", "8", "9">> \o LowerCase

TitleOf(f, i) == <<"T", IdChars[f + 1], IdChars[i + 1]>>

EntryAt(w, f, i, env) ==
    [link |-> LinkOf(w.lp, f, i), hasLink |-> env.hasLink,
     title |-> TitleOf(f, i), hasTitle |-> env.hasTitle,
     published |-> DateOf(w.dp, f, i), summary |-> env.summary,
     page |-> env.page, llm |-> env.llm]

\* entry.get(key, '')
Get(value) == IF value = Missing THEN EmptyStr ELSE value

(***************************************************************************)
(* fetch_and_process_feeds                                                 *)
(***************************************************************************)
\* list.sort(key=pubDate, reverse=True): descending, and stable (records of
\* equal key keep their order).  x goes before the first smaller record.
RECURSIVE InsertDesc(_, _)
InsertDesc(sorted, x) ==
    IF sorted = << >> THEN <<x>>
    ELSE IF StrLess(Head(sorted).pubDate, x.pubDate) THEN <<x>> \o sorted
    ELSE <<Head(sorted)>> \o InsertDesc(Tail(sorted), x)

RECURSIVE SortDescFrom(_, _)
SortDescFrom(acc, rest) ==
    IF rest = << >> THEN acc
    ELSE SortDescFrom(InsertDesc(acc, Head(rest)), Tail(rest))

SortByPubDateDesc(articles) == SortDescFrom(<< >>, articles)

\* A plausible slip: the limit is applied to the unsorted list.
SortAndLimit_unsorted(articles) == Slice(articles, MAX_ARTICLES)

\* lines 207-209: sort by publication date, newest first, and limit
SortAndLimit(articles) == Slice(SortByPubDateDesc(articles), MAX_ARTICLES)

\* A plausible slip: no fallback, the content stays what the fetch returned.
ContentFor_no_fallback(fetched, entry) == fetched

\* content = fetch_article_content(link); if not content: entry.get('summary', '')
ContentFor(fetched, entry) ==
    IF fetched = None \/ fetched = EmptyStr THEN Get(entry.summary) ELSE fetched

\* A plausible slip: the test is dropped and every entry is processed.
AlreadySeen_never(link) == FALSE

\* if entry.link in seen_urls: continue
AlreadySeen(link) == link \in seen_urls

NoCall == [feed |-> 0, idx |-> 0]

Logged(entry, outcome) ==
    [feed |-> feedIdx, idx |-> entryIdx, hasLink |-> entry.hasLink,
     link |-> entry.link, title |-> entry.title, outcome |-> outcome]

\* A plausible slip: the handler leaves the loop (break) instead of going on.
OnFeedError_break ==
    /\ feedLog' = Append(feedLog, [feed |-> feedIdx, status |-> "failed",
                                    len |-> 0])
    /\ feedIdx' = Len(RSS_FEEDS) + 1
    /\ pc' = "feeds"
    /\ UNCHANGED result

\* except Exception: print(...); continue -- the loop goes to the next feed
OnFeedError ==
    /\ feedLog' = Append(feedLog, [feed |-> feedIdx, status |-> "failed",
                                    len |-> 0])
    /\ feedIdx' = feedIdx + 1
    /\ pc' = "feeds"
    /\ UNCHANGED result

InitRun ==
    /\ world \in [lp : LinkPatterns, dp : DatePatterns]
    /\ pc = "feeds"
    /\ feedIdx = 1
    /\ feed = [len |-> 0]
    /\ entryIdx = 1
    /\ all_articles = << >>
    /\ seen_urls = {}
    /\ result = << >>
    /\ considered = << >>
    /\ feedLog = << >>
    /\ lastCall = NoCall
    /\ clock = 0

\* feedparser.parse(feed_url) returns a feed of n entries
ParseFeed ==
    /\ UNCHANGED <<saveVars, hookVars>>
    /\ pc = "feeds"
    /\ feedIdx <= Len(RSS_FEEDS)
    /\ \E n \in FeedLens : feed' = [len |-> n]
    /\ entryIdx' = 1
    /\ pc' = "entries"
    /\ UNCHANGED <<world, feedIdx, all_articles, seen_urls, result, considered,
                   feedLog, lastCall, clock>>

\* feedparser.parse(feed_url) raises
ParseFeedRaises ==
    /\ UNCHANGED <<saveVars, hookVars>>
    /\ pc = "feeds"
    /\ feedIdx <= Len(RSS_FEEDS)
    /\ OnFeedError
    /\ UNCHANGED <<world, feed, entryIdx, all_articles, seen_urls, considered,
                   lastCall, clock>>

\* one pass of the body of  for entry in feed.entries[:15]
ProcessEntry ==
    /\ UNCHANGED <<saveVars, hookVars>>
    /\ pc = "entries"
    /\ entryIdx <= Min(feed.len, MAX_ENTRIES)
    /\ \E env \in EntryEnvs :
         /\ Len(considered) < RichLen \/ env = PlainEnv
         /\ LET entry == EntryAt(world, feedIdx, entryIdx, env)
                fetched == fetch_article_content(entry.page)
                content == ContentFor(fetched, entry)
                summary == create_summary(entry.title, content, entry.llm)
                hook_type == determine_hook_type(entry.title, content)
                article == [title |-> entry.title, link |-> entry.link,
                            pubDate |-> Get(entry.published), summary |-> summary,
                            hookType |-> hook_type, processed_at |-> clock]
            IN  IF ~entry.hasLink
                THEN \* entry.link raises AttributeError
                     /\ considered' = Append(considered, Logged(entry, "raised"))
                     /\ OnFeedError
                     /\ UNCHANGED <<entryIdx, all_articles, seen_urls, lastCall, clock>>
                ELSE IF AlreadySeen(entry.link)
                THEN \* continue
                     /\ considered' = Append(considered, Logged(entry, "skipped"))
                     /\ entryIdx' = entryIdx + 1
                     /\ UNCHANGED <<pc, feedIdx, result, feedLog, all_articles,
                                    seen_urls, lastCall, clock>>
                ELSE IF ~entry.hasTitle
                THEN \* entry.title raises AttributeError, after the link was
                     \* added and the page was fetched
                     /\ seen_urls' = seen_urls \cup {entry.link}
                     /\ considered' = Append(considered, Logged(entry, "raised"))
                     /\ OnFeedError
                     /\ UNCHANGED <<entryIdx, all_articles, lastCall, clock>>
                ELSE /\ seen_urls' = seen_urls \cup {entry.link}
                     /\ all_articles' = Append(all_articles, article)
                     /\ considered' = Append(considered, Logged(entry, "record"))
                     /\ lastCall' = [feed |-> feedIdx, idx |-> entryIdx,
                                     entry |-> entry, fetched |-> fetched,
                                     summary_content |-> content,
                                     hook_content |-> content]
                     /\ clock' = clock + 1
                     /\ entryIdx' = entryIdx + 1
                     /\ UNCHANGED <<pc, feedIdx, result, feedLog>>
    /\ UNCHANGED <<world, feed>>

\* the entries of the feed are exhausted: on to the next feed
EndFeed ==
    /\ UNCHANGED <<saveVars, hookVars>>
    /\ pc = "entries"
    /\ entryIdx > Min(feed.len, MAX_ENTRIES)
    /\ feedLog' = Append(feedLog, [feed |-> feedIdx, status |-> "ok",
                                    len |-> feed.len])
    /\ feedIdx' = feedIdx + 1
    /\ pc' = "feeds"
    /\ UNCHANGED <<world, feed, entryIdx, all_articles, seen_urls, result,
                   considered, lastCall, clock>>

\* the feeds are exhausted: sort, limit, return
Return ==
    /\ UNCHANGED <<saveVars, hookVars>>
    /\ pc = "feeds"
    /\ feedIdx > Len(RSS_FEEDS)
    /\ result' = SortAndLimit(all_articles)
    /\ pc' = "done"
    /\ UNCHANGED <<world, feedIdx, feed, entryIdx, all_articles, seen_urls,
                   considered, feedLog, lastCall, clock>>

(***************************************************************************)
(* save_data                                                               *)
(*                                                                         *)
(* A file is absent, holds a JSON document ("json") or holds bytes that    *)
(* json.load rejects ("corrupt").  An article is what save_data reads of   *)
(* it, the link, and the stamp processed_at that tells two records of one  *)
(* link apart.                                                             *)
(***************************************************************************)
HISTORY_LIMIT == 50

\* Bound of the model.
MaxSaves == 6           \* save_data calls in a sequence of runs

AbsentFile == [state |-> "absent", articles |-> << >>]
CorruptFile == [state |-> "corrupt", articles |-> << >>]
JsonFile(articles) == [state |-> "json", articles |-> articles]

Links(articles) == {articles[i].link : i \in 1..Len(articles)}

\* [x for x in articles if pred]: the subsequence outside the given links
RECURSIVE NotIn(_, _)
NotIn(articles, links) ==
    IF articles = << >> THEN << >>
    ELSE (IF Head(articles).link \in links THEN << >> ELSE <<Head(articles)>>)
         \o NotIn(Tail(articles), links)

\* A plausible slip: the new articles are appended after the old ones.
MergeHistory_append(articles, old) ==
    LET existing_links == Links(old)
        new_articles == NotIn(articles, existing_links)
    IN  Slice(old \o new_articles, HISTORY_LIMIT)

\* A plausible slip: every article of the run is prepended, known or not.
MergeHistory_no_dedup(articles, old) ==
    Slice(articles \o old, HISTORY_LIMIT)

\* A plausible slip: the cut keeps the last 50 entries ([-50:]), not the first.
MergeHistory_keep_tail(articles, old) ==
    LET existing_links == Links(old)
        new_articles == NotIn(articles, existing_links)
        merged == new_articles \o old
    IN  SubSeq(merged, Len(merged) - Min(Len(merged), HISTORY_LIMIT) + 1, Len(merged))

\* lines 236-241: the new sequence history["articles"]
MergeHistory(articles, old) ==
    LET existing_links == Links(old)
        new_articles == NotIn(articles, existing_links)
    IN  Slice(new_articles \o old, HISTORY_LIMIT)

\* What the try/except around the read leaves in history, or "raise" when
\* the exception is none the except clause names.  Only FileNotFoundError
\* is named: json.JSONDecodeError leaves save_data.
LoadHistory(file) ==
    IF file.state = "absent" THEN [kind |-> "ok", articles |-> << >>]
    ELSE IF file.state = "corrupt" THEN [kind |-> "raise", articles |-> << >>]
    ELSE [kind |-> "ok", articles |-> file.articles]

\* The article lists a run hands to save_data: some links no run has shown
\* before, and at most one link taken again from the history (its oldest or
\* its newest entry).  The links of a list differ, and there are at most
\* MAX_ARTICLES, as fetch_and_process_feeds returns them.
FreshCounts == {0, 1, MAX_ARTICLES - 1, MAX_ARTICLES}
Reseen == {"none", "oldest", "newest"}

FreshArticles(k) ==
    [i \in 1..k |-> [link |-> saves * MAX_ARTICLES + i, processed_at |-> saves + 1]]

RunArticles(k, again) ==
    LET old == news_history.articles
    IN  IF again = "oldest"
        THEN <<[link |-> old[Len(old)].link, processed_at |-> saves + 1]>>
             \o FreshArticles(k)
        ELSE IF again = "newest"
        THEN FreshArticles(k)
             \o <<[link |-> old[1].link, processed_at |-> saves + 1]>>
        ELSE FreshArticles(k)

NoSave == [outcome |-> "none", articles |-> << >>, before |-> AbsentFile]

InitSave ==
    /\ news_data = AbsentFile
    /\ news_history \in {AbsentFile, JsonFile(<< >>), CorruptFile}
    /\ saves = 0
    /\ lastSave = NoSave

\* save_data(articles)
SaveData ==
    /\ UNCHANGED <<pipelineVars, hookVars>>
    /\ saves < MaxSaves
    /\ \E k \in FreshCounts, again \in Reseen :
         /\ again # "none" => k < MAX_ARTICLES /\ news_history.articles # << >>
         /\ LET articles == RunArticles(k, again)
                history == LoadHistory(news_history)
            IN  /\ news_data' = JsonFile(articles)
                /\ IF history.kind = "raise"
                   THEN /\ UNCHANGED news_history
                        /\ lastSave' = [outcome |-> "raised", articles |-> articles,
                                        before |-> news_history]
                   ELSE /\ news_history' =
                              JsonFile(MergeHistory(articles, history.articles))
                        /\ lastSave' = [outcome |-> "saved", articles |-> articles,
                                        before |-> news_history]
    /\ saves' = saves + 1

(***************************************************************************)
(* determine_hook_type on its own: titles of up to MaxWords words          *)
(***************************************************************************)
MaxWords == 2

HookWords ==
    { <<"M", "a", "y", "o", "r">>, <<"S", "T", "O", "R", "M">>,
      <<"C", "e", "l", "t", "i", "c", "s">>, <<"M", "B", "T", "A">>,
      <<"B", "o", "s", "t", "o", "n">>, <<"t", "r", "a", "i", "n", "i", "n", "g">>,
      <<"R", "e", "d">>, <<"S", "o", "x">>, <<"u", "p", "d", "a", "t", "e">> }

RECURSIVE TitlesOf(_)
TitlesOf(n) ==
    IF n = 0 THEN {EmptyStr}
    ELSE LET shorter == TitlesOf(n - 1)
         IN  shorter \cup HookWords
             \cup {t \o <<" ">> \o w : t \in shorter \ {EmptyStr}, w \in HookWords}

HookTitles == TitlesOf(MaxWords)

HookContents ==
    { EmptyStr, None,
      <<"u", "p", "d", "a", "t", "e">>,
      <<"i", "n", " ", "C", "A", "M", "B", "R", "I", "D", "G", "E">>,
      <<"M", "a", "y", "o", "r", " ", "v", "o", "t", "e">> }

NoResult == "none"

InitHook ==
    /\ hookArgs \in [title : HookTitles, content : HookContents]
    /\ hookResult = NoResult

IdleHook ==
    /\ hookArgs = [title |-> EmptyStr, content |-> EmptyStr]
    /\ hookResult = NoResult

IdleSave ==
    /\ news_data = AbsentFile
    /\ news_history = AbsentFile
    /\ saves = 0
    /\ lastSave = NoSave

IdleRun ==
    /\ world = [lp |-> "overlap", dp |-> "cycle"]
    /\ pc = "idle"
    /\ feedIdx = 1
    /\ feed = [len |-> 0]
    /\ entryIdx = 1
    /\ all_articles = << >>
    /\ seen_urls = {}
    /\ result = << >>
    /\ considered = << >>
    /\ feedLog = << >>
    /\ lastCall = NoCall
    /\ clock = 0

\* determine_hook_type(title, content)
Classify ==
    /\ UNCHANGED <<pipelineVars, saveVars>>
    /\ hookResult = NoResult
    /\ hookResult' = determine_hook_type(hookArgs.title, hookArgs.content)
    /\ UNCHANGED hookArgs

(***************************************************************************)
(* The claims                                                              *)
(***************************************************************************)
Records(articles) == {articles[i] : i \in 1..Len(articles)}

DistinctLinks(articles) ==
    \A i, j \in 1..Len(articles) : articles[i].link = articles[j].link => i = j

LastArticle == all_articles[Len(all_articles)]

\* The responses of the model that hold fewer than three bullet lines.
ShortResponses == {LlmText(Llm2Text), LlmText(Llm0Text)}

\* C1: every record appended by fetch_and_process_feeds has a summary of
\* exactly three bullets, whatever the model call did; when the call raised
\* or its text held fewer than three bullet lines the summary is a fallback
\* triple, the record is appended all the same and the loop is at the next
\* entry.
C1_SummaryHasThreeBullets ==
    /\ \A i \in 1..Len(all_articles) : Len(all_articles[i].summary) = 3
    /\ \A i \in 1..Len(result) : Len(result[i].summary) = 3
    /\ lastCall # NoCall =>
         /\ all_articles # << >>
         /\ LastArticle.title = lastCall.entry.title
         /\ lastCall.entry.llm = LlmRaise =>
              LastArticle.summary = ErrorFallback(lastCall.entry.title)
         /\ lastCall.entry.llm \in ShortResponses =>
              LastArticle.summary = ParseFallback(lastCall.entry.title)
         /\ pc = "entries" /\ feedIdx = lastCall.feed => entryIdx > lastCall.idx

\* C1 witness: the model call raised, and the record is there with the
\* fallback triple.
C1_Witness ==
    /\ lastCall # NoCall
    /\ lastCall.entry.llm = LlmRaise
    /\ all_articles # << >>
    /\ LastArticle.title = lastCall.entry.title
    /\ Len(LastArticle.summary) = 3
    /\ pc = "entries"
    /\ entryIdx = lastCall.idx + 1

SortedDesc(articles) ==
    \A i, j \in 1..Len(articles) :
        i < j => ~StrLess(articles[i].pubDate, articles[j].pubDate)

\* C2: the returned list has at most 12 records, all of them records of the
\* run, in descending string order of pubDate; when more than 12 records
\* were made exactly 12 are returned and no dropped record has a pubDate
\* greater than that of a kept one.
C2_SortedAndLimited ==
    pc = "done" =>
        /\ Len(result) <= 12
        /\ Len(result) = Min(Len(all_articles), 12)
        /\ Records(result) \subseteq Records(all_articles)
        /\ DistinctLinks(result)
        /\ SortedDesc(result)
        /\ \A d \in Records(all_articles) \ Records(result) :
             \A k \in Records(result) : ~StrLess(k.pubDate, d.pubDate)

\* C2 witness: more than 12 records were made, one with a pubDate below the
\* kept ones was dropped, and the kept ones do not all share a pubDate.
C2_Witness ==
    /\ pc = "done"
    /\ Len(all_articles) > 12
    /\ Len(result) = 12
    /\ \E d \in Records(all_articles) \ Records(result) :
         StrLess(d.pubDate, result[12].pubDate)
    /\ StrLess(result[12].pubDate, result[1].pubDate)
    /\ \E i \in 1..(Len(all_articles) - 1) :
         StrLess(all_articles[i].pubDate, all_articles[i + 1].pubDate)

\* The entries with a link the loop body was entered for.
WithLink == {k \in 1..Len(considered) : considered[k].hasLink}

FirstWithLink(link) ==
    CHOOSE k \in WithLink :
        /\ considered[k].link = link
        /\ \A j \in WithLink : considered[j].link = link => k <= j

\* C3: within a run no two records have the same link, in all_articles and
\* in the returned list, and the record of a link is built from the first
\* entry with that link in processing order, over all feeds.
C3_FirstSeenWins ==
    /\ DistinctLinks(all_articles)
    /\ DistinctLinks(result)
    /\ \A i \in 1..Len(all_articles) :
         /\ \E k \in WithLink : considered[k].link = all_articles[i].link
         /\ considered[FirstWithLink(all_articles[i].link)].title
              = all_articles[i].title
    /\ \A k \in WithLink :
         considered[k].outcome = "record" => k = FirstWithLink(considered[k].link)

\* C3 witness: an entry of the second feed was skipped because the first
\* feed had an entry with its link, whose record is there.
C3_Witness ==
    \E k \in WithLink :
        /\ considered[k].outcome = "skipped"
        /\ considered[k].feed = 2
        /\ considered[FirstWithLink(considered[k].link)].feed = 1
        /\ \E i \in 1..Len(all_articles) :
             /\ all_articles[i].link = considered[k].link
             /\ all_articles[i].title # considered[k].title

\* C7: a failure in a feed never ends the run.  When the function returns,
\* every feed of the list was taken up in order, every entry of a feed that
\* did not fail was considered, every entry that came through has its record
\* in all_articles, and the returned list is the sorted, limited list.
C7_FeedFailureIsSkipped ==
    pc = "done" =>
        /\ Len(feedLog) = Len(RSS_FEEDS)
        /\ \A f \in 1..Len(feedLog) :
             /\ feedLog[f].feed = f
             /\ feedLog[f].status = "ok" =>
                  \A i \in 1..Min(feedLog[f].len, MAX_ENTRIES) :
                      \E k \in 1..Len(considered) :
                          /\ considered[k].feed = f
                          /\ considered[k].idx = i
                          /\ considered[k].outcome \in {"record", "skipped"}
        /\ \A k \in 1..Len(considered) :
             considered[k].outcome = "record" =>
                 \E a \in Records(all_articles) : a.title = considered[k].title
        /\ Len(result) = Min(Len(all_articles), MAX_ARTICLES)
        /\ Records(result) \subseteq Records(all_articles)
        /\ SortedDesc(result)

\* C7 witness: the first feed failed, the second was processed to its end,
\* and the returned list holds a record of the second feed.
C7_Witness ==
    /\ pc = "done"
    /\ Len(feedLog) = 2
    /\ feedLog[1].status = "failed"
    /\ feedLog[2].status = "ok"
    /\ \E a \in Records(result) : a.title[2] = IdChars[3]

\* The pages no text comes from: the fetch failed, no element and no
\* paragraph was found, or the element found is empty and there is no
\* paragraph.
NoTextPages == {PageError, PageBlank, PageEmptyElement}

\* C8: when the page fetch fails or yields no text, fetch_article_content
\* returns None, the entry's own summary ('' when it has none) is the
\* content given to create_summary and to determine_hook_type, and the
\* record of the entry is appended.
C8_FallsBackToFeedSummary ==
    lastCall # NoCall /\ lastCall.entry.page \in NoTextPages =>
        /\ lastCall.fetched = None
        /\ lastCall.summary_content = Get(lastCall.entry.summary)
        /\ lastCall.hook_content = Get(lastCall.entry.summary)
        /\ lastCall.entry.summary = Missing => lastCall.summary_content = EmptyStr
        /\ all_articles # << >>
        /\ LastArticle.link = lastCall.entry.link
        /\ LastArticle.title = lastCall.entry.title
        /\ lastCall.entry.summary = TextFeedSummary =>
             LastArticle.hookType = "LOCAL_IMPACT"
        /\ lastCall.entry.summary = Missing => LastArticle.hookType = "NEWS"

\* C8 witness: the fetch failed for an entry without a summary, and its
\* record was made from the empty text.
C8_Witness ==
    /\ lastCall # NoCall
    /\ lastCall.entry.page = PageError
    /\ lastCall.entry.summary = Missing
    /\ lastCall.summary_content = EmptyStr
    /\ all_articles # << >>
    /\ LastArticle.title = lastCall.entry.title

\* What the merge of the last call started from.
OldHistory ==
    IF lastSave.before.state = "json" THEN lastSave.before.articles ELSE << >>

\* The articles of the last call whose link the old history lacks, in the
\* order of the call.
NewUnique ==
    LET old_links == Links(OldHistory)
        IsNew(a) == a.link \notin old_links
    IN  SelectSeq(lastSave.articles, IsNew)

\* C4: after every merge the history has at most 50 entries and no two of
\* them share a link.
C4_HistoryBoundedAndDistinct ==
    news_history.state = "json" =>
        /\ Len(news_history.articles) <= 50
        /\ DistinctLinks(news_history.articles)

\* C4 witness: a merge that met a known link and had to drop entries to
\* keep the 50.
C4_Witness ==
    /\ lastSave.outcome = "saved"
    /\ Len(NewUnique) < Len(lastSave.articles)
    /\ Len(NewUnique) + Len(OldHistory) > 50
    /\ Len(news_history.articles) = 50

\* C5: when the history document is absent or unreadable, save_data starts
\* the merge from an empty history and writes the history document.
C5_ReadFailureRecovered ==
    lastSave.outcome # "none" /\ lastSave.before.state \in {"absent", "corrupt"} =>
        /\ lastSave.outcome = "saved"
        /\ news_history.state = "json"
        /\ news_history.articles = Slice(lastSave.articles, 50)

\* C9: the new history is new_unique followed by the old history, cut to its
\* first 50 entries: the old records keep their content and their order
\* behind the new ones, only a tail is dropped, and a first run leaves the
\* articles of the run.
C9_HistoryIsPrependAndCut ==
    lastSave.outcome = "saved" =>
        LET new == news_history.articles
            all == NewUnique \o OldHistory
            n == Len(NewUnique)
        IN  /\ news_history.state = "json"
            /\ Len(new) = Min(Len(all), 50)
            /\ new = SubSeq(all, 1, Len(new))
            /\ \A i \in 1..Len(new) :
                 /\ i <= n => new[i] = NewUnique[i]
                 /\ i > n => new[i] = OldHistory[i - n]
            /\ lastSave.before.state = "absent" => new = lastSave.articles

\* C9 witness: new and known articles came, and the cut dropped old entries.
C9_Witness ==
    /\ lastSave.outcome = "saved"
    /\ NewUnique # << >>
    /\ Len(NewUnique) < Len(lastSave.articles)
    /\ Len(NewUnique) + Len(OldHistory) > 50
    /\ news_history.articles[Len(NewUnique) + 1] = OldHistory[1]

\* C10 as claimed: after every save_data call that writes the history, every
\* link of the snapshot written by the call is in that history.
C10_SnapshotWithinHistory ==
    lastSave.outcome = "saved" =>
        Links(news_data.articles) \subseteq Links(news_history.articles)

\* C10 as amended: after every save_data call that writes the history, the
\* snapshot is the list of the call; every link of it the old history lacked
\* is in the new history, and a link of it the old history held at position
\* p is in the new history exactly when p plus the number of new links is
\* at most 50 (so always when the old history had at most 38 entries).
C10_SnapshotWithinHistoryUnlessCut ==
    lastSave.outcome = "saved" =>
        /\ news_data = JsonFile(lastSave.articles)
        /\ Links(NewUnique) \subseteq Links(news_history.articles)
        /\ \A p \in 1..Len(OldHistory) :
             OldHistory[p].link \in Links(news_data.articles) =>
                 (OldHistory[p].link \in Links(news_history.articles)
                    <=> p + Len(NewUnique) <= 50)
        /\ Len(OldHistory) <= 50 - 12 =>
             Links(news_data.articles) \subseteq Links(news_history.articles)

\* C10 witness: an article of the snapshot was in the old history and the
\* cut dropped it, while the new articles of the snapshot are in the history.
C10_Witness ==
    /\ lastSave.outcome = "saved"
    /\ NewUnique # << >>
    /\ \E a \in Records(news_data.articles) :
         /\ a.link \in Links(OldHistory)
         /\ a.link \notin Links(news_history.articles)

\* The rules in their order: the label, its keywords, and the text they are
\* looked for in.
HookRules ==
    << [label |-> "SPORTS", words |-> SPORTS_WORDS, text |-> "title"],
       [label |-> "TRANSIT", words |-> TRANSIT_WORDS, text |-> "title"],
       [label |-> "POLITICS", words |-> POLITICS_WORDS, text |-> "title"],
       [label |-> "WEATHER", words |-> WEATHER_WORDS, text |-> "title"],
       [label |-> "LOCAL_IMPACT", words |-> LOCAL_WORDS, text |-> "content"] >>

\* word occurs in text, letters compared without regard to case
OccursIgnoringCase(text, word) ==
    /\ text # None
    /\ \E i \in 1..Len(text) :
         /\ i + Len(word) - 1 <= Len(text)
         /\ \A k \in 1..Len(word) : LowerChar(text[i + k - 1]) = LowerChar(word[k])

RuleMatches(r, title, content) ==
    LET text == IF HookRules[r].text = "title" THEN title ELSE content
    IN  \E w \in 1..Len(HookRules[r].words) :
            OccursIgnoringCase(text, HookRules[r].words[w])

FirstRuleLabel(title, content) ==
    LET matching == {r \in 1..Len(HookRules) : RuleMatches(r, title, content)}
    IN  IF matching = {} THEN "NEWS"
        ELSE HookRules[CHOOSE r \in matching : \A q \in matching : r <= q].label

\* C6: determine_hook_type returns the label of the first rule that matches,
\* in the order SPORTS, TRANSIT, POLITICS, WEATHER (on the title),
\* LOCAL_IMPACT (on the content), else NEWS; a title with a POLITICS and a
\* WEATHER keyword yields POLITICS, and a place name in the title alone
\* never yields LOCAL_IMPACT.
C6_FirstMatchingRule ==
    hookResult # NoResult =>
        LET title == hookArgs.title
            content == hookArgs.content
        IN  /\ hookResult = FirstRuleLabel(title, content)
            /\ RuleMatches(3, title, content) /\ RuleMatches(4, title, content)
               /\ ~RuleMatches(1, title, content) /\ ~RuleMatches(2, title, content)
                 => hookResult = "POLITICS"
            /\ ~RuleMatches(5, title, content) => hookResult # "LOCAL_IMPACT"

\* C6 witness: a title with "STORM" and "Mayor", in this order, was
\* classified POLITICS although the content names a place.
C6_Witness ==
    /\ hookArgs.title = <<"S", "T", "O", "R", "M", " ", "M", "a", "y", "o", "r">>
    /\ hookArgs.content = <<"i", "n", " ", "C", "A", "M", "B", "R", "I", "D", "G", "E">>
    /\ hookResult = "POLITICS"

(***************************************************************************)
(* Specifications                                                          *)
(***************************************************************************)
Init == InitRun /\ IdleSave /\ IdleHook
Next == ParseFeed \/ ParseFeedRaises \/ ProcessEntry \/ EndFeed \/ Return
Spec == Init /\ [][Next]_vars

InitSaveSpec == IdleRun /\ InitSave /\ IdleHook
NextSave == SaveData
SpecSave == InitSaveSpec /\ [][NextSave]_vars

InitHookSpec == IdleRun /\ IdleSave /\ InitHook
NextHook == Classify
SpecHook == InitHookSpec /\ [][NextHook]_vars

====
